---- MODULE Spec2Model ----
(***************************************************************************)
(* Model of the video template engine: TemplateEngine (registry, instance  *)
(* store, merge, render) and ValidationUtils.                              *)
(*                                                                         *)
(* JavaScript values are tagged records, so that null, undefined, wrong    *)
(* types and missing fields are inputs the operations can be given.        *)
(***************************************************************************)
EXTENDS Integers, Sequences, FiniteSets, TLC

\* ------------------------------------------------------------------------
\* JavaScript values
\* ------------------------------------------------------------------------
Undefined == [t |-> "undefined"]
Null == [t |-> "null"]
NaN == [t |-> "nan"]
Str(s) == [t |-> "string", s |-> s]
Num(n) == [t |-> "number", n |-> n]
Arr(a) == [t |-> "array", a |-> a]
Obj(o) == [t |-> "object", o |-> o]
Bool(b) == [t |-> "boolean", b |-> b]

\* value === null || value === undefined; a property access on it throws TypeError
Nullish(v) == v.t \in {"null", "undefined"}

\* typeof v
TypeOf(v) ==
  CASE v.t = "string" -> "string"
    [] v.t \in {"number", "nan"} -> "number"
    [] v.t = "undefined" -> "undefined"
    [] v.t = "boolean" -> "boolean"
    [] OTHER -> "object"

IsArray(v) == v.t = "array"

\* ToBoolean(v)
Truthy(v) ==
  CASE v.t \in {"null", "undefined", "nan"} -> FALSE
    [] v.t = "string" -> v.s # ""
    [] v.t = "number" -> v.n # 0
    [] v.t = "boolean" -> v.b
    [] OTHER -> TRUE

\* v.f for a v that is not null or undefined
Get(v, f) == IF v.t = "object" /\ f \in DOMAIN v.o THEN v.o[f] ELSE Undefined

\* v?.f
GetOpt(v, f) == IF Nullish(v) THEN Undefined ELSE Get(v, f)

\* String.prototype.trim on the strings of the model: " " is whitespace only
Trim(s) == IF s = " " THEN "" ELSE s

\* ToNumber on the values that reach an arithmetic operator in the model
ToNumber(v) ==
  CASE v.t = "number" -> v
    [] v.t = "null" -> Num(0)
    [] OTHER -> NaN

\* a < b, a > b, a + b, Math.abs(a - b) > k on numbers; NaN compares false
JsLt(a, b) ==
  LET x == ToNumber(a) y == ToNumber(b)
  IN  x.t = "number" /\ y.t = "number" /\ x.n < y.n
JsGt(a, b) == JsLt(b, a)
JsLe(a, b) ==
  LET x == ToNumber(a) y == ToNumber(b)
  IN  x.t = "number" /\ y.t = "number" /\ x.n <= y.n
JsAdd(a, b) ==
  IF a.t = "number" /\ b.t = "number" THEN Num(a.n + b.n) ELSE NaN
AbsDiffGt(a, b, k) ==
  LET x == ToNumber(a) y == ToNumber(b)
  IN  x.t = "number" /\ y.t = "number"
      /\ (IF x.n >= y.n THEN x.n - y.n ELSE y.n - x.n) > k

\* ------------------------------------------------------------------------
\* ValidationUtils
\* ------------------------------------------------------------------------
NoError == "none"

\* validateInput(value, parameterName, expectedType): the error it throws
validateInput(value, expectedType) ==
  IF Nullish(value) THEN "InvalidInputError"
  ELSE IF expectedType = "string"
            /\ (TypeOf(value) # "string" \/ Trim(value.s) = "")
    THEN "InvalidInputError"
  ELSE IF expectedType = "object" /\ (TypeOf(value) # "object" \/ IsArray(value))
    THEN "InvalidInputError"
  ELSE IF expectedType = "array" /\ ~IsArray(value)
    THEN "InvalidInputError"
  ELSE NoError

\* new URL(url) succeeds
ValidUrls == {"https://www.youtube.com/shorts/NjlP2_l1Wr0"}
isValidUrl(url) == url.t = "string" /\ url.s \in ValidUrls

Issue(name, at) == [issue |-> name, at |-> at]

\* validateParticipant(participant), for a participant that is not null or
\* undefined: the issues, in order, each tagged with the position `at`
validateParticipant(p, at) ==
  (IF ~Truthy(Get(p, "id")) \/ TypeOf(Get(p, "id")) # "string"
     THEN <<Issue("ParticipantId", at)>> ELSE <<>>)
  \o (IF ~Truthy(Get(p, "name")) \/ TypeOf(Get(p, "name")) # "string"
     THEN <<Issue("ParticipantName", at)>> ELSE <<>>)
  \o (IF ~Truthy(Get(p, "role"))
          \/ Get(p, "role") \notin {Str("gamemaster"), Str("player")}
     THEN <<Issue("ParticipantRole", at)>> ELSE <<>>)
  \o (IF Truthy(Get(p, "equipment")) /\ ~IsArray(Get(p, "equipment"))
     THEN <<Issue("ParticipantEquipment", at)>> ELSE <<>>)

\* participants.filter(p => p.role === 'gamemaster').length, for a list
\* without null or undefined elements
gamemasterCount(list) ==
  Cardinality({i \in 1..Len(list) : Get(list[i], "role") = Str("gamemaster")})

\* p.role on a null or undefined element throws TypeError
HasNullishElement(list) == \E i \in 1..Len(list) : Nullish(list[i])

RECURSIVE participantIssues(_, _)
participantIssues(list, i) ==
  IF i > Len(list) THEN <<>>
  ELSE validateParticipant(list[i], i) \o participantIssues(list, i + 1)

Outcome(err, issues) == [err |-> err, issues |-> issues]

\* validateTemplate, lines 33-52: the metadata block
metadataIssues(template) ==
  LET md == Get(template, "metadata") IN
  IF ~Truthy(md) THEN <<Issue("MetadataRequired", 0)>>
  ELSE
    (IF ~Truthy(Get(md, "originalVideo")) \/ ~isValidUrl(Get(md, "originalVideo"))
       THEN <<Issue("OriginalVideoUrl", 0)>> ELSE <<>>)
    \o (IF ~Truthy(Get(md, "duration")) \/ JsLe(Get(md, "duration"), Num(0))
       THEN <<Issue("DurationPositive", 0)>> ELSE <<>>)
    \o (IF JsLt(Get(md, "minParticipants"), Num(1))
       THEN <<Issue("MinParticipants", 0)>> ELSE <<>>)
    \o (IF JsLt(Get(md, "maxParticipants"), Get(md, "minParticipants"))
       THEN <<Issue("MaxParticipants", 0)>> ELSE <<>>)

\* validateTemplate, lines 54-72: the participants block (no nullish element)
templateParticipantIssues(template) ==
  LET ps == Get(template, "participants") IN
  IF ~IsArray(ps) \/ Len(ps.a) = 0 THEN <<Issue("NoParticipants", 0)>>
  ELSE
    (IF gamemasterCount(ps.a) = 0 THEN <<Issue("NoGamemaster", 0)>> ELSE <<>>)
    \o (IF gamemasterCount(ps.a) > 1 THEN <<Issue("ManyGamemasters", 0)>> ELSE <<>>)
    \o participantIssues(ps.a, 1)

\* template.segments.intro?.duration + gameplay?.duration + conclusion?.duration
totalDuration(segments) ==
  JsAdd(JsAdd(GetOpt(Get(segments, "intro"), "duration"),
              GetOpt(Get(segments, "gameplay"), "duration")),
        GetOpt(Get(segments, "conclusion"), "duration"))

\* validateTemplate, lines 74-92: the segments block (metadata not nullish)
segmentIssues(template) ==
  LET segs == Get(template, "segments") IN
  IF ~Truthy(segs) THEN <<Issue("SegmentsRequired", 0)>>
  ELSE
    (IF ~Truthy(Get(segs, "intro")) THEN <<Issue("MissingSegment", 1)>> ELSE <<>>)
    \o (IF ~Truthy(Get(segs, "gameplay")) THEN <<Issue("MissingSegment", 2)>> ELSE <<>>)
    \o (IF ~Truthy(Get(segs, "conclusion")) THEN <<Issue("MissingSegment", 3)>> ELSE <<>>)
    \o (IF AbsDiffGt(totalDuration(segs), Get(Get(template, "metadata"), "duration"), 2)
       THEN <<Issue("DurationMismatch", 0)>> ELSE <<>>)

\* the places where validateTemplate dereferences null or undefined:
\* p.role at line 58 and template.metadata.duration at line 89
validateTemplateTypeError(template) ==
  \/ LET ps == Get(template, "participants")
     IN  IsArray(ps) /\ Len(ps.a) > 0 /\ HasNullishElement(ps.a)
  \/ /\ Truthy(Get(template, "segments"))
     /\ Nullish(Get(template, "metadata"))

\* validateTemplate(template), for a template that passed validateInput
validateTemplate(template) ==
  IF validateTemplateTypeError(template) THEN Outcome("TypeError", <<>>)
  ELSE
    LET issues ==
          (IF ~Truthy(Get(template, "id")) \/ TypeOf(Get(template, "id")) # "string"
             THEN <<Issue("TemplateId", 0)>> ELSE <<>>)
          \o (IF ~Truthy(Get(template, "name")) \/ TypeOf(Get(template, "name")) # "string"
             THEN <<Issue("TemplateName", 0)>> ELSE <<>>)
          \o (IF ~Truthy(Get(template, "description"))
                  \/ TypeOf(Get(template, "description")) # "string"
             THEN <<Issue("TemplateDescription", 0)>> ELSE <<>>)
          \o metadataIssues(template)
          \o templateParticipantIssues(template)
          \o segmentIssues(template)
    IN  IF Len(issues) > 0 THEN Outcome("TemplateValidationError", issues)
        ELSE Outcome(NoError, <<>>)

\* the string-field check without the trim
stringFieldIssue_NoTrim(o, f, name) ==
  LET v == Get(o, f) IN
  IF v # Undefined /\ (TypeOf(v) # "string" \/ v.s = "")
    THEN <<Issue(name, 0)>> ELSE <<>>

\* a string field of a challenge or environment override
stringFieldIssue(o, f, name) ==
  LET v == Get(o, f) IN
  IF v # Undefined /\ (TypeOf(v) # "string" \/ Trim(v.s) = "")
    THEN <<Issue(name, 0)>> ELSE <<>>

\* a list field of a challenge or environment override
listFieldIssue(o, f, name) ==
  LET v == Get(o, f) IN
  IF v # Undefined /\ ~IsArray(v) THEN <<Issue(name, 0)>> ELSE <<>>

validateChallenge(challenge) ==
  stringFieldIssue(challenge, "objective", "ChallengeObjective")
  \o listFieldIssue(challenge, "targetObjects", "ChallengeTargetObjects")
  \o listFieldIssue(challenge, "rules", "ChallengeRules")
  \o stringFieldIssue(challenge, "successCondition", "ChallengeSuccessCondition")
  \o stringFieldIssue(challenge, "failureConsequence", "ChallengeFailureConsequence")

validateEnvironment(environment) ==
  stringFieldIssue(environment, "location", "EnvironmentLocation")
  \o listFieldIssue(environment, "props", "EnvironmentProps")
  \o listFieldIssue(environment, "constraints", "EnvironmentConstraints")

SegmentIds == {"intro", "gameplay", "conclusion"}

\* Object.keys(v) of a dialogue override: the fields of a record, the
\* indices of a list
ObjectKeys(v) ==
  IF v.t = "object" THEN DOMAIN v.o
  ELSE IF v.t = "array" THEN {ToString(i - 1) : i \in 1..Len(v.a)}
  ELSE {}

\* a participants block that honours customizationOptions.allowParticipantChange
customParticipantIssues_FlagEnforced(template, customizations) ==
  LET ps == Get(customizations, "participants")
      md == Get(template, "metadata")
  IN
  IF ~Truthy(ps) THEN <<>>
  ELSE IF ~Truthy(Get(Get(template, "customizationOptions"), "allowParticipantChange"))
    THEN <<Issue("ParticipantChangeNotAllowed", 0)>>
  ELSE IF ~IsArray(ps) THEN <<Issue("ParticipantsNotArray", 0)>>
  ELSE
    (IF JsLt(Num(Len(ps.a)), Get(md, "minParticipants"))
       THEN <<Issue("TooFewParticipants", 0)>> ELSE <<>>)
    \o (IF JsGt(Num(Len(ps.a)), Get(md, "maxParticipants"))
       THEN <<Issue("TooManyParticipants", 0)>> ELSE <<>>)
    \o (IF gamemasterCount(ps.a) = 0 THEN <<Issue("NoGamemaster", 0)>> ELSE <<>>)
    \o (IF gamemasterCount(ps.a) > 1 THEN <<Issue("ManyGamemasters", 0)>> ELSE <<>>)
    \o participantIssues(ps.a, 1)

\* validateCustomizations, lines 108-142: the participants block
customParticipantIssues(template, customizations) ==
  LET ps == Get(customizations, "participants")
      md == Get(template, "metadata")
  IN
  IF ~Truthy(ps) THEN <<>>
  ELSE IF ~IsArray(ps) THEN <<Issue("ParticipantsNotArray", 0)>>
  ELSE
    (IF JsLt(Num(Len(ps.a)), Get(md, "minParticipants"))
       THEN <<Issue("TooFewParticipants", 0)>> ELSE <<>>)
    \o (IF JsGt(Num(Len(ps.a)), Get(md, "maxParticipants"))
       THEN <<Issue("TooManyParticipants", 0)>> ELSE <<>>)
    \o (IF gamemasterCount(ps.a) = 0 THEN <<Issue("NoGamemaster", 0)>> ELSE <<>>)
    \o (IF gamemasterCount(ps.a) > 1 THEN <<Issue("ManyGamemasters", 0)>> ELSE <<>>)
    \o participantIssues(ps.a, 1)

\* validateCustomizations, lines 156-167: the dialogue block, one issue for
\* every key that is not a segment id
customDialogueIssues(customizations) ==
  LET d == Get(customizations, "dialogue") IN
  IF ~Truthy(d) THEN <<>>
  ELSE IF TypeOf(d) # "object" THEN <<Issue("DialogueNotObject", 0)>>
  ELSE [i \in 1..Cardinality(ObjectKeys(d) \ SegmentIds) |->
          Issue("InvalidDialogueSegment", i)]

\* p.role on a null or undefined element of the override list, line 124
validateCustomizationsTypeError(customizations) ==
  LET ps == Get(customizations, "participants")
  IN  IsArray(ps) /\ HasNullishElement(ps.a)

\* ValidationUtils.validateCustomizations(template, customizations), for a
\* registered template and customizations that passed validateInput
validateCustomizationsUtil(template, customizations) ==
  IF validateCustomizationsTypeError(customizations) THEN Outcome("TypeError", <<>>)
  ELSE
    LET issues ==
          customParticipantIssues(template, customizations)
          \o (IF Truthy(Get(customizations, "challenge"))
                THEN validateChallenge(Get(customizations, "challenge")) ELSE <<>>)
          \o (IF Truthy(Get(customizations, "environment"))
                THEN validateEnvironment(Get(customizations, "environment")) ELSE <<>>)
          \o customDialogueIssues(customizations)
    IN  IF Len(issues) > 0 THEN Outcome("CustomizationValidationError", issues)
        ELSE Outcome(NoError, <<>>)

\* ------------------------------------------------------------------------
\* TemplateEngine: merge and render
\* ------------------------------------------------------------------------
RECURSIVE JsonClone(_)
\* JSON.parse(JSON.stringify(v)): undefined fields are dropped, undefined and
\* NaN inside a list become null
JsonClone(v) ==
  CASE v.t = "object" ->
         LET keep == {f \in DOMAIN v.o : v.o[f].t # "undefined"}
         IN  Obj([f \in keep |-> JsonClone(v.o[f])])
    [] v.t = "array" ->
         Arr([i \in 1..Len(v.a) |->
                IF v.a[i].t \in {"undefined", "nan"} THEN Null ELSE JsonClone(v.a[i])])
    [] v.t = "nan" -> Null
    [] OTHER -> v

\* the own enumerable properties Object.assign copies from a source
OwnProperties(source) ==
  CASE source.t = "object" -> source.o
    [] source.t = "array" -> [k \in ObjectKeys(source) |->
                                source.a[(CHOOSE i \in 1..Len(source.a) : ToString(i - 1) = k)]]
    [] OTHER -> <<>>

\* Object.assign that keeps the fields the target already has
ObjectAssign_TargetWins(target, source) ==
  IF target.t # "object" THEN target
  ELSE LET props == OwnProperties(source)
       IN  Obj([f \in (DOMAIN target.o) \cup (DOMAIN props) |->
                  IF f \in DOMAIN target.o THEN target.o[f] ELSE props[f]])

\* Object.assign(target, source) for a target that is not null or undefined:
\* the value target holds afterwards (a primitive target is left as it is)
ObjectAssign(target, source) ==
  IF target.t # "object" THEN target
  ELSE LET props == OwnProperties(source)
       IN  Obj([f \in (DOMAIN target.o) \cup (DOMAIN props) |->
                  IF f \in DOMAIN props THEN props[f] ELSE target.o[f]])

\* obj with obj.f = v
SetField(obj, f, v) ==
  Obj([g \in (DOMAIN obj.o) \cup {f} |-> IF g = f THEN v ELSE obj.o[g]])

\* the dialogue keys for which merged.segments[key] is truthy
MergedDialogueKeys(merged, dialogue) ==
  {k \in ObjectKeys(dialogue) : Truthy(Get(Get(merged, "segments"), k))}

\* the places where the merge dereferences null or undefined
mergeTypeError(merged, instance) ==
  \/ Truthy(instance.customizedChallenge) /\ Nullish(Get(merged, "challenge"))
  \/ Truthy(instance.customizedEnvironment) /\ Nullish(Get(merged, "environment"))
  \/ /\ Truthy(instance.customizedDialogue)
     /\ \/ Nullish(Get(merged, "segments"))
        \/ \E k \in MergedDialogueKeys(merged, instance.customizedDialogue) :
             Nullish(Get(Get(Get(merged, "segments"), k), "content"))

\* the merge that appends the override's lines to the segment's own
segmentsWithDialogue_Append(merged, dialogue) ==
  LET segs == Get(merged, "segments")
      keys == MergedDialogueKeys(merged, dialogue)
      value(k) == IF dialogue.t = "object" THEN dialogue.o[k] ELSE OwnProperties(dialogue)[k]
      appended(own, k) == IF IsArray(own) /\ IsArray(value(k))
                            THEN Arr(own.a \o value(k).a) ELSE value(k)
  IN  IF segs.t # "object" THEN segs
      ELSE Obj([s \in DOMAIN segs.o |->
             IF s \in keys /\ segs.o[s].t = "object"
               THEN SetField(segs.o[s], "content",
                      IF Get(segs.o[s], "content").t = "object"
                        THEN SetField(Get(segs.o[s], "content"), "dialogue",
                               appended(Get(Get(segs.o[s], "content"), "dialogue"), s))
                        ELSE Get(segs.o[s], "content"))
               ELSE segs.o[s]])

\* merged.segments[k].content.dialogue = dialogue[k] for every applicable key
segmentsWithDialogue(merged, dialogue) ==
  LET segs == Get(merged, "segments")
      keys == MergedDialogueKeys(merged, dialogue)
      value(k) == IF dialogue.t = "object" THEN dialogue.o[k] ELSE OwnProperties(dialogue)[k]
  IN  IF segs.t # "object" THEN segs
      ELSE Obj([s \in DOMAIN segs.o |->
             IF s \in keys /\ segs.o[s].t = "object"
               THEN SetField(segs.o[s], "content",
                      IF Get(segs.o[s], "content").t = "object"
                        THEN SetField(Get(segs.o[s], "content"), "dialogue", value(s))
                        ELSE Get(segs.o[s], "content"))
               ELSE segs.o[s]])

\* mergeTemplateWithCustomizations(template, instance)
mergeTemplateWithCustomizations(template, instance) ==
  LET merged == JsonClone(template) IN
  IF mergeTypeError(merged, instance) THEN [err |-> "Error", ret |-> Undefined]
  ELSE
    LET m1 == IF Truthy(instance.customizedChallenge)
                THEN SetField(merged, "challenge",
                       ObjectAssign(Get(merged, "challenge"), instance.customizedChallenge))
                ELSE merged
        m2 == IF Truthy(instance.customizedParticipants)
                THEN SetField(m1, "participants", instance.customizedParticipants)
                ELSE m1
        m3 == IF Truthy(instance.customizedEnvironment)
                THEN SetField(m2, "environment",
                       ObjectAssign(Get(m2, "environment"), instance.customizedEnvironment))
                ELSE m2
        m4 == IF Truthy(instance.customizedDialogue)
                THEN SetField(m3, "segments",
                       segmentsWithDialogue(m3, instance.customizedDialogue))
                ELSE m3
    IN  [err |-> NoError, ret |-> m4]

\* the merge that writes into the registered template instead of a clone
templateAfterMerge_Shared(template, instance) ==
  IF mergeTemplateWithCustomizations(template, instance).err = NoError
    THEN mergeTemplateWithCustomizations(template, instance).ret
    ELSE template

\* the merge whose Object.assign writes the challenge override into the
\* registered template
templateAfterMerge_Assigned(template, instance) ==
  IF Truthy(instance.customizedChallenge) /\ ~Nullish(Get(template, "challenge"))
    THEN SetField(template, "challenge",
                  ObjectAssign(Get(template, "challenge"), instance.customizedChallenge))
    ELSE template

\* the registered template object once mergeTemplateWithCustomizations has
\* run on it: every write of the merge goes to the deep clone `merged`
templateAfterMerge(template, instance) == template

\* segment.content.dialogue of a resolved segment
segmentDialogue(template, seg) ==
  Get(Get(Get(Get(template, "segments"), seg), "content"), "dialogue")

\* rendering the dialogue of one segment throws: content is missing, the
\* dialogue is truthy but no list, or an element is null or undefined
dialogueTypeError(template, seg) ==
  LET s == Get(Get(template, "segments"), seg) IN
  \/ Nullish(s)
  \/ Nullish(Get(s, "content"))
  \/ LET d == segmentDialogue(template, seg)
     IN  Truthy(d) /\ (~IsArray(d) \/ HasNullishElement(d.a))

\* the places where createVideoScript dereferences null or undefined
renderTypeError(template) ==
  \/ Nullish(Get(template, "challenge"))
  \/ Nullish(Get(template, "environment"))
  \/ Nullish(Get(template, "participants"))
  \/ Nullish(Get(template, "segments"))
  \/ \E seg \in SegmentIds : dialogueTypeError(template, seg)

\* the lines `**speaker:** "text"` of one segment, in input order
dialogueLines(template, seg) ==
  LET d == segmentDialogue(template, seg) IN
  IF ~Truthy(d) THEN <<>>
  ELSE [i \in 1..Len(d.a) |->
          [speaker |-> Get(d.a[i], "speaker"), text |-> Get(d.a[i], "text")]]

\* participants.length
LengthOf(v) == IF IsArray(v) THEN Num(Len(v.a)) ELSE Get(v, "length")

\* the render that takes a segment's startTime for its duration
segmentDuration_StartTime(template, seg) ==
  Get(Get(Get(template, "segments"), seg), "startTime")

segmentDuration(template, seg) == Get(Get(Get(template, "segments"), seg), "duration")

\* createVideoScript(template): the script, as the values that are
\* interpolated into its lines, in the order of the text
createVideoScript(template) ==
  IF renderTypeError(template) THEN [err |-> "Error", ret |-> Undefined]
  ELSE
    LET introEnd == segmentDuration(template, "intro")
        conclusionStart == JsAdd(segmentDuration(template, "intro"),
                                 segmentDuration(template, "gameplay"))
    IN  [err |-> NoError,
         ret |-> [t |-> "script",
                  name |-> Get(template, "name"),
                  objective |-> Get(Get(template, "challenge"), "objective"),
                  location |-> Get(Get(template, "environment"), "location"),
                  participants |-> LengthOf(Get(template, "participants")),
                  introHeading |-> <<Num(0), introEnd>>,
                  intro |-> dialogueLines(template, "intro"),
                  gameplayHeading |-> <<introEnd, conclusionStart>>,
                  gameplay |-> dialogueLines(template, "gameplay"),
                  conclusionHeading |->
                    <<conclusionStart,
                      JsAdd(conclusionStart, segmentDuration(template, "conclusion"))>>,
                  conclusion |-> dialogueLines(template, "conclusion")]]

\* ------------------------------------------------------------------------
\* TemplateEngine: state and public operations
\* ------------------------------------------------------------------------
VARIABLES
  templates,   \* Map<string, ChallengeTemplate>: template id -> template
  instances,   \* Map<string, TemplateInstance>: instance id -> instance
  last,        \* the last public call: operation, arguments, error, result
  deleted      \* history, kept in SpecHistory: the ids deleteInstance removed

vars == <<templates, instances, last, deleted>>

Call(op, a1, a2, err, ret) == [op |-> op, a1 |-> a1, a2 |-> a2, err |-> err, ret |-> ret]

\* this.templates.has(id) / this.instances.has(id)
hasKey(map, id) == id \in DOMAIN map

\* map.set(key, value)
MapSet(map, key, value) ==
  [k \in (DOMAIN map) \cup {key} |-> IF k = key THEN value ELSE map[k]]

\* map.delete(key)
MapDelete(map, key) == [k \in (DOMAIN map) \ {key} |-> map[k]]

\* registerTemplate that stores the record before it validates it
registerTemplateResult_StoreFirst(tmpls, template) ==
  IF validateInput(template, "object") # NoError
    THEN [err |-> "InvalidInputError", templates |-> tmpls]
  ELSE IF hasKey(tmpls, Get(template, "id"))
    THEN [err |-> "DuplicateTemplateError", templates |-> tmpls]
  ELSE [err |-> validateTemplate(template).err,
        templates |-> MapSet(tmpls, Get(template, "id"), template)]

\* registerTemplate(template): the error thrown and the registry afterwards
registerTemplateResult(tmpls, template) ==
  IF validateInput(template, "object") # NoError
    THEN [err |-> "InvalidInputError", templates |-> tmpls]
  ELSE IF hasKey(tmpls, Get(template, "id"))
    THEN [err |-> "DuplicateTemplateError", templates |-> tmpls]
  ELSE IF validateTemplate(template).err # NoError
    THEN [err |-> validateTemplate(template).err, templates |-> tmpls]
  ELSE [err |-> NoError, templates |-> MapSet(tmpls, Get(template, "id"), template)]

\* getTemplate(templateId): the error thrown or the template returned
getTemplateResult(tmpls, templateId) ==
  IF validateInput(templateId, "string") # NoError
    THEN [err |-> "InvalidInputError", ret |-> Undefined]
  ELSE IF ~hasKey(tmpls, templateId) \/ ~Truthy(tmpls[templateId])
    THEN [err |-> "TemplateNotFoundError", ret |-> Undefined]
  ELSE [err |-> NoError, ret |-> tmpls[templateId]]

\* hasTemplate(templateId)
hasTemplateResult(tmpls, templateId) ==
  IF validateInput(templateId, "string") # NoError
    THEN [err |-> "InvalidInputError", ret |-> Undefined]
  ELSE [err |-> NoError, ret |-> Bool(hasKey(tmpls, templateId))]

\* createInstance that goes on when the template lookup fails
createInstanceError_NoLookup(tmpls, templateId, customizations) ==
  LET cust == IF customizations = Undefined THEN Obj(<<>>) ELSE customizations IN
  IF validateInput(templateId, "string") # NoError THEN "InvalidInputError"
  ELSE IF validateInput(cust, "object") # NoError THEN "InvalidInputError"
  ELSE IF getTemplateResult(tmpls, templateId).err # NoError THEN NoError
  ELSE validateCustomizationsUtil(getTemplateResult(tmpls, templateId).ret, cust).err

\* createInstance up to the instance id: the error thrown, if any
\* (customizations = {} when the argument is undefined)
createInstanceError(tmpls, templateId, customizations) ==
  LET cust == IF customizations = Undefined THEN Obj(<<>>) ELSE customizations IN
  IF validateInput(templateId, "string") # NoError THEN "InvalidInputError"
  ELSE IF validateInput(cust, "object") # NoError THEN "InvalidInputError"
  ELSE IF getTemplateResult(tmpls, templateId).err # NoError
    THEN getTemplateResult(tmpls, templateId).err
  ELSE validateCustomizationsUtil(getTemplateResult(tmpls, templateId).ret, cust).err

\* the TemplateInstance createInstance builds
newInstance(templateId, instanceId, customizations) ==
  LET cust == IF customizations = Undefined THEN Obj(<<>>) ELSE customizations IN
  [templateId |-> templateId,
   instanceId |-> instanceId,
   customizedChallenge |-> Get(cust, "challenge"),
   customizedParticipants |-> Get(cust, "participants"),
   customizedEnvironment |-> Get(cust, "environment"),
   customizedDialogue |-> Get(cust, "dialogue"),
   generationSettings |-> [outputFormat |-> "mp4", quality |-> "high"]]

\* validateCustomizations whose catch handles CustomizationValidationError only
validateCustomizationsResult_Uncaught(tmpls, templateId, customizations) ==
  IF validateInput(templateId, "string") # NoError
    THEN [err |-> "InvalidInputError", ret |-> Undefined]
  ELSE IF validateInput(customizations, "object") # NoError
    THEN [err |-> "InvalidInputError", ret |-> Undefined]
  ELSE IF getTemplateResult(tmpls, templateId).err # NoError
    THEN [err |-> getTemplateResult(tmpls, templateId).err, ret |-> Undefined]
  ELSE IF validateCustomizationsUtil(getTemplateResult(tmpls, templateId).ret,
                                     customizations).err = "TypeError"
    THEN [err |-> "TypeError", ret |-> Undefined]
  ELSE [err |-> NoError,
        ret |-> Bool(validateCustomizationsUtil(getTemplateResult(tmpls, templateId).ret,
                                                customizations).err = NoError)]

\* the boolean validateCustomizations(templateId, customizations): any error
\* is caught and reported as false; no default applies to the second argument
validateCustomizationsResult(tmpls, templateId, customizations) ==
  LET caught == [err |-> NoError, ret |-> Bool(FALSE)] IN
  IF validateInput(templateId, "string") # NoError THEN caught
  ELSE IF validateInput(customizations, "object") # NoError THEN caught
  ELSE IF getTemplateResult(tmpls, templateId).err # NoError THEN caught
  ELSE IF validateCustomizationsUtil(getTemplateResult(tmpls, templateId).ret,
                                     customizations).err # NoError THEN caught
  ELSE [err |-> NoError, ret |-> Bool(TRUE)]

\* generateScript that lets the TemplateNotFoundError of the lookup escape
generateScriptResult_Unwrapped(tmpls, insts, instanceId) ==
  IF validateInput(instanceId, "string") # NoError
    THEN [err |-> "InvalidInputError", reason |-> "none", ret |-> Undefined,
          templates |-> tmpls]
  ELSE IF ~hasKey(insts, instanceId)
    THEN [err |-> "InstanceNotFoundError", reason |-> "none", ret |-> Undefined,
          templates |-> tmpls]
  ELSE
    LET instance == insts[instanceId]
        found == getTemplateResult(tmpls, instance.templateId)
    IN  IF found.err # NoError
          THEN [err |-> found.err, reason |-> "none", ret |-> Undefined,
                templates |-> tmpls]
        ELSE
          LET merged == mergeTemplateWithCustomizations(found.ret, instance)
              script == createVideoScript(merged.ret)
              after == MapSet(tmpls, instance.templateId,
                              templateAfterMerge(found.ret, instance))
          IN
          IF merged.err # NoError
            THEN [err |-> "ScriptGenerationError", reason |-> "MergeFailed",
                  ret |-> Undefined, templates |-> after]
          ELSE IF script.err # NoError
            THEN [err |-> "ScriptGenerationError", reason |-> "RenderFailed",
                  ret |-> Undefined, templates |-> after]
          ELSE [err |-> NoError, reason |-> "none",
                ret |-> script.ret, templates |-> after]

\* generateScript without the catch around merge and render
generateScriptResult_NoCatch(tmpls, insts, instanceId) ==
  IF validateInput(instanceId, "string") # NoError
    THEN [err |-> "InvalidInputError", reason |-> "none", ret |-> Undefined,
          templates |-> tmpls]
  ELSE IF ~hasKey(insts, instanceId)
    THEN [err |-> "InstanceNotFoundError", reason |-> "none", ret |-> Undefined,
          templates |-> tmpls]
  ELSE
    LET instance == insts[instanceId]
        found == getTemplateResult(tmpls, instance.templateId)
    IN  IF found.err = "TemplateNotFoundError"
          THEN [err |-> "ScriptGenerationError", reason |-> "TemplateNoLongerExists",
                ret |-> Undefined, templates |-> tmpls]
        ELSE IF found.err # NoError
          THEN [err |-> "ScriptGenerationError", reason |-> found.err, ret |-> Undefined,
                templates |-> tmpls]
        ELSE
          LET merged == mergeTemplateWithCustomizations(found.ret, instance)
              script == createVideoScript(merged.ret)
              after == MapSet(tmpls, instance.templateId,
                              templateAfterMerge(found.ret, instance))
          IN
          IF merged.err # NoError
            THEN [err |-> "Error", reason |-> "MergeFailed",
                  ret |-> Undefined, templates |-> after]
          ELSE IF script.err # NoError
            THEN [err |-> "Error", reason |-> "RenderFailed",
                  ret |-> Undefined, templates |-> after]
          ELSE [err |-> NoError, reason |-> "none",
                ret |-> script.ret, templates |-> after]

\* generateScript(instanceId): the error thrown (with the reason the
\* ScriptGenerationError carries) or the script returned, and the registry
\* afterwards
generateScriptResult(tmpls, insts, instanceId) ==
  IF validateInput(instanceId, "string") # NoError
    THEN [err |-> "InvalidInputError", reason |-> "none", ret |-> Undefined,
          templates |-> tmpls]
  ELSE IF ~hasKey(insts, instanceId)
    THEN [err |-> "InstanceNotFoundError", reason |-> "none", ret |-> Undefined,
          templates |-> tmpls]
  ELSE
    LET instance == insts[instanceId]
        found == getTemplateResult(tmpls, instance.templateId)
    IN  IF found.err = "TemplateNotFoundError"
          THEN [err |-> "ScriptGenerationError", reason |-> "TemplateNoLongerExists",
                ret |-> Undefined, templates |-> tmpls]
        ELSE IF found.err # NoError
          THEN [err |-> "ScriptGenerationError", reason |-> found.err, ret |-> Undefined,
                templates |-> tmpls]
        ELSE
          LET merged == mergeTemplateWithCustomizations(found.ret, instance)
              script == createVideoScript(merged.ret)
              after == MapSet(tmpls, instance.templateId,
                              templateAfterMerge(found.ret, instance))
          IN
          IF merged.err # NoError
            THEN [err |-> "ScriptGenerationError", reason |-> "MergeFailed",
                  ret |-> Undefined, templates |-> after]
          ELSE IF script.err # NoError
            THEN [err |-> "ScriptGenerationError", reason |-> "RenderFailed",
                  ret |-> Undefined, templates |-> after]
          ELSE [err |-> NoError, reason |-> "none",
                ret |-> script.ret, templates |-> after]

\* getInstance that returns instances.get(id) unchecked
getInstanceResult_Unchecked(insts, instanceId) ==
  IF validateInput(instanceId, "string") # NoError
    THEN [err |-> "InvalidInputError", ret |-> Undefined]
  ELSE IF ~hasKey(insts, instanceId)
    THEN [err |-> NoError, ret |-> Undefined]
  ELSE [err |-> NoError, ret |-> insts[instanceId]]

\* getInstance(instanceId)
getInstanceResult(insts, instanceId) ==
  IF validateInput(instanceId, "string") # NoError
    THEN [err |-> "InvalidInputError", ret |-> Undefined]
  ELSE IF ~hasKey(insts, instanceId)
    THEN [err |-> "InstanceNotFoundError", ret |-> Undefined]
  ELSE [err |-> NoError, ret |-> insts[instanceId]]

\* deleteInstance that looks the id up as getInstance does
deleteInstanceResult_Checked(insts, instanceId) ==
  IF validateInput(instanceId, "string") # NoError
    THEN [err |-> "InvalidInputError", ret |-> Undefined, instances |-> insts]
  ELSE IF ~hasKey(insts, instanceId)
    THEN [err |-> "InstanceNotFoundError", ret |-> Undefined, instances |-> insts]
  ELSE [err |-> NoError, ret |-> Bool(TRUE), instances |-> MapDelete(insts, instanceId)]

\* deleteInstance(instanceId): Map.delete reports whether the key was there
deleteInstanceResult(insts, instanceId) ==
  IF validateInput(instanceId, "string") # NoError
    THEN [err |-> "InvalidInputError", ret |-> Undefined, instances |-> insts]
  ELSE [err |-> NoError, ret |-> Bool(hasKey(insts, instanceId)),
        instances |-> MapDelete(insts, instanceId)]

\* ------------------------------------------------------------------------
\* Inputs
\* ------------------------------------------------------------------------
\* longest participant override list
MaxListLen == 4
\* number of values the random suffix of an instance id takes
NumRandomSuffixes == 2

\* what Date.now() and Math.random().toString(36).substr(2, 9) deliver to
\* one call of generateInstanceId: calls may fall into the same millisecond,
\* and nothing keeps the random suffix from repeating
ClockAndRandom == [now : {"1730000000000"}, random : 1..NumRandomSuffixes]

\* generateInstanceId(): `instance_${Date.now()}_${random}`
generateInstanceId(r) ==
  Str("instance_" \o r.now \o "_" \o ToString(r.random))

Gamemaster ==
  Obj([id |-> Str("gamemaster"), role |-> Str("gamemaster"), name |-> Str("Game Master"),
       equipment |-> Arr(<<Str("paintball gun")>>),
       isCustomizable |-> Bool(TRUE)])
Player1 ==
  Obj([id |-> Str("player1"), role |-> Str("player"), name |-> Str("Player 1"),
       isCustomizable |-> Bool(TRUE)])

DialogueLine(speaker, text) ==
  Obj([speaker |-> Str(speaker), text |-> Str(text), timing |-> Num(0),
       isCustomizable |-> Bool(TRUE)])

Segment(start, duration, speaker, text) ==
  Obj([startTime |-> Num(start), duration |-> Num(duration),
       content |-> Obj([dialogue |-> Arr(<<DialogueLine(speaker, text)>>),
                        actions |-> Arr(<<>>), visualElements |-> Arr(<<>>)])])

\* the fixture template, abridged: participant bounds 2..3, two
\* participants, one dialogue line per segment, one entry per list
OriginalChallengeTemplate ==
  Obj([id |-> Str("find-key-escape-room"),
       name |-> Str("Find the Key Challenge"),
       description |-> Str("A competitive challenge"),
       metadata |-> Obj([originalVideo |-> Str("https://www.youtube.com/shorts/NjlP2_l1Wr0"),
                         duration |-> Num(35),
                         minParticipants |-> Num(2), maxParticipants |-> Num(3)]),
       challenge |-> Obj([objective |-> Str("Find the key"),
                          rules |-> Arr(<<Str("Players must find all hidden keys")>>),
                          successCondition |-> Str("Find and secure a key"),
                          isCustomizable |-> Bool(TRUE)]),
       participants |-> Arr(<<Gamemaster, Player1>>),
       environment |-> Obj([location |-> Str("enclosed room"),
                            props |-> Arr(<<Str("3 hidden keys")>>),
                            isCustomizable |-> Bool(TRUE)]),
       segments |-> Obj([intro |-> Segment(0, 3, "gamemaster", "Find the key!"),
                         gameplay |-> Segment(3, 27, "narrator", "Players search"),
                         conclusion |-> Segment(30, 5, "gamemaster", "Time is up")]),
       customizationOptions |-> Obj([allowParticipantChange |-> Bool(TRUE),
                                     allowChallengeChange |-> Bool(TRUE),
                                     allowEnvironmentChange |-> Bool(TRUE),
                                     allowDialogueChange |-> Bool(TRUE)])])

\* obj without the field f
Without(obj, f) == Obj([g \in (DOMAIN obj.o) \ {f} |-> obj.o[g]])

\* the values registerTemplate is called with
TemplateInputs ==
  { OriginalChallengeTemplate,
    \* same id, another payload: another name, segment durations 2 short
    \* of metadata.duration, and every customization permission switched off
    SetField(SetField(SetField(OriginalChallengeTemplate, "name", Str("Reach the Finish Line")),
                      "metadata",
                      SetField(Get(OriginalChallengeTemplate, "metadata"), "duration", Num(37))),
             "customizationOptions",
             Obj([allowParticipantChange |-> Bool(FALSE),
                  allowChallengeChange |-> Bool(FALSE),
                  allowEnvironmentChange |-> Bool(FALSE),
                  allowDialogueChange |-> Bool(FALSE)])),
    \* an id that is a string of whitespace
    SetField(OriginalChallengeTemplate, "id", Str(" ")),
    \* segment durations 3 short of metadata.duration
    SetField(OriginalChallengeTemplate, "metadata",
             SetField(Get(OriginalChallengeTemplate, "metadata"), "duration", Num(38))),
    \* fewer participants than metadata.minParticipants
    SetField(OriginalChallengeTemplate, "metadata",
             SetField(Get(OriginalChallengeTemplate, "metadata"), "minParticipants", Num(3))),
    \* a segment without a duration
    SetField(OriginalChallengeTemplate, "segments",
             SetField(Get(OriginalChallengeTemplate, "segments"), "intro",
                      Without(Get(Get(OriginalChallengeTemplate, "segments"), "intro"),
                              "duration"))),
    \* structurally invalid records
    SetField(OriginalChallengeTemplate, "id", Str("")),
    Without(OriginalChallengeTemplate, "metadata"),
    Without(OriginalChallengeTemplate, "participants"),
    Without(OriginalChallengeTemplate, "segments"),
    Without(Without(OriginalChallengeTemplate, "metadata"), "segments"),
    SetField(OriginalChallengeTemplate, "participants", Arr(<<Gamemaster, Null>>)),
    SetField(OriginalChallengeTemplate, "participants", Arr(<<Player1, Player1>>)),
    Obj(<<>>),
    \* values that are no record
    Null, Undefined, Num(42), Str("find-key-escape-room"), Arr(<<>>) }

\* the values passed where a template id or an instance id is expected
TemplateIdInputs ==
  { Str("find-key-escape-room"), Str("non-existent"), Str(" "), Str(""), Null, Num(7) }

InstanceIdInputs ==
  {generateInstanceId(r) : r \in ClockAndRandom}
  \cup { Str("does-not-exist"), Str(" "), Str(""), Null, Num(7) }

\* n copies of v
Repeat(v, n) == [i \in 1..n |-> v]

\* participant override lists of every length up to MaxListLen: with one
\* gamemaster, none, two, and with a null or a non-record element
ParticipantLists ==
  UNION { { Repeat(Player1, n),
            <<Gamemaster>> \o Repeat(Player1, n),
            <<Gamemaster, Gamemaster>> \o Repeat(Player1, n),
            Repeat(Player1, n) \o <<Null>>,
            <<Gamemaster>> \o Repeat(Player1, n) \o <<Null>> }
          : n \in 0..MaxListLen }
  \cup { <<Gamemaster, Num(5)>> }

ListInputs == {l \in ParticipantLists : Len(l) <= MaxListLen}

\* the values createInstance is given as customizations
CustomizationInputs ==
  { Undefined, Null, Num(5), Arr(<<>>), Obj(<<>>),
    Obj([challenge |-> Obj([objective |-> Str("Reach the finish line"),
                            rules |-> Arr(<<Str("No shortcuts")>>)]),
         environment |-> Obj([location |-> Str("outdoor course"),
                              props |-> Arr(<<Str("cones")>>)])]),
    Obj([challenge |-> Obj([objective |-> Str("Collect the flags")]),
         dialogue |-> Obj([intro |-> Arr(<<DialogueLine("gamemaster", "Run!"),
                                          DialogueLine("player1", "Go!")>>)])]),
    Obj([challenge |-> Obj([objective |-> Str(" ")])]),
    Obj([environment |-> Obj([props |-> Str("cones")])]),
    Obj([challenge |-> Obj([successCondition |-> Num(5)])]),
    Obj([challenge |-> Obj([failureConsequence |-> Str("")])]),
    Obj([challenge |-> Obj([targetObjects |-> Null])]),
    Obj([challenge |-> Obj([rules |-> Str("No shortcuts")])]),
    Obj([environment |-> Obj([location |-> Str(" ")])]),
    Obj([environment |-> Obj([constraints |-> Num(5)])]),
    \* a dialogue override whose value is no list
    Obj([dialogue |-> Obj([intro |-> Str("Run!")])]),
    Obj([dialogue |-> Obj([outro |-> Arr(<<DialogueLine("gamemaster", "Bye")>>)])]),
    Obj([participants |-> Str("everyone")]),
    \* several violations at once
    Obj([participants |-> Arr(<<Player1>>),
         dialogue |-> Obj([outro |-> Arr(<<DialogueLine("gamemaster", "Bye")>>)])]),
    Obj([participants |-> Arr(<<Null>>),
         dialogue |-> Obj([outro |-> Arr(<<DialogueLine("gamemaster", "Bye")>>)])]) }
  \cup { Obj([participants |-> Arr(l)]) : l \in ListInputs }

\* the argument pairs of createInstance and validateCustomizations: every
\* customization with the fixture's id, and every id with no customization,
\* an empty one and a participant list
CallInputs ==
  ({Str("find-key-escape-room")} \X CustomizationInputs)
  \cup (TemplateIdInputs
         \X {Undefined, Obj(<<>>), Obj([participants |-> Arr(<<Gamemaster, Player1>>)])})

\* ------------------------------------------------------------------------
\* Actions: one per public operation
\* ------------------------------------------------------------------------
\* no call is in progress: the caller has the result of the previous one
NoCall == Call("none", Undefined, Undefined, NoError, Undefined)

Init ==
  /\ templates = <<>>
  /\ instances = <<>>
  /\ last = NoCall
  /\ deleted = {}

\* the operations are synchronous: the caller makes a call when the
\* previous one has returned or thrown
Idle == last = NoCall

\* the call has returned or thrown and the caller goes on
Return ==
  /\ ~Idle
  /\ last' = NoCall
  /\ UNCHANGED <<templates, instances, deleted>>

RegisterTemplate ==
  /\ Idle
  /\ \E template \in TemplateInputs :
       LET r == registerTemplateResult(templates, template) IN
       /\ templates' = r.templates
       /\ last' = Call("registerTemplate", template, Undefined, r.err, Undefined)
       /\ UNCHANGED <<instances, deleted>>

GetTemplate ==
  /\ Idle
  /\ \E id \in TemplateIdInputs :
       LET r == getTemplateResult(templates, id) IN
       /\ last' = Call("getTemplate", id, Undefined, r.err, r.ret)
       /\ UNCHANGED <<templates, instances, deleted>>

GetAvailableTemplates ==
  /\ Idle
  /\ last' = Call("getAvailableTemplates", Undefined, Undefined, NoError,
                  [t |-> "keys", keys |-> DOMAIN templates])
  /\ UNCHANGED <<templates, instances, deleted>>

HasTemplate ==
  /\ Idle
  /\ \E id \in TemplateIdInputs :
       LET r == hasTemplateResult(templates, id) IN
       /\ last' = Call("hasTemplate", id, Undefined, r.err, r.ret)
       /\ UNCHANGED <<templates, instances, deleted>>

CreateInstance ==
  /\ Idle
  /\ \E call \in CallInputs :
       LET templateId == call[1]
           customizations == call[2]
           err == createInstanceError(templates, templateId, customizations)
       IN
       IF err # NoError
         THEN /\ last' = Call("createInstance", templateId, customizations, err, Undefined)
              /\ UNCHANGED <<templates, instances, deleted>>
         ELSE \E r \in ClockAndRandom :
                LET instance == newInstance(templateId, generateInstanceId(r), customizations) IN
                /\ instances' = MapSet(instances, instance.instanceId, instance)
                /\ last' = Call("createInstance", templateId, customizations, NoError, instance)
                /\ UNCHANGED <<templates, deleted>>

ValidateCustomizations ==
  /\ Idle
  /\ \E call \in CallInputs :
       LET r == validateCustomizationsResult(templates, call[1], call[2]) IN
       /\ last' = Call("validateCustomizations", call[1], call[2], r.err, r.ret)
       /\ UNCHANGED <<templates, instances, deleted>>

GenerateScript ==
  /\ Idle
  /\ \E id \in InstanceIdInputs :
       LET r == generateScriptResult(templates, instances, id) IN
       /\ templates' = r.templates
       /\ last' = Call("generateScript", id, Str(r.reason), r.err, r.ret)
       /\ UNCHANGED <<instances, deleted>>

GetInstance ==
  /\ Idle
  /\ \E id \in InstanceIdInputs :
       LET r == getInstanceResult(instances, id) IN
       /\ last' = Call("getInstance", id, Undefined, r.err, r.ret)
       /\ UNCHANGED <<templates, instances, deleted>>

DeleteInstance ==
  /\ Idle
  /\ \E id \in InstanceIdInputs :
       LET r == deleteInstanceResult(instances, id) IN
       /\ instances' = r.instances
       /\ last' = Call("deleteInstance", id, Undefined, r.err, r.ret)
       /\ UNCHANGED <<templates, deleted>>

GetAvailableInstances ==
  /\ Idle
  /\ last' = Call("getAvailableInstances", Undefined, Undefined, NoError,
                  [t |-> "keys", keys |-> DOMAIN instances])
  /\ UNCHANGED <<templates, instances, deleted>>

Next ==
  \/ RegisterTemplate
  \/ GetTemplate
  \/ GetAvailableTemplates
  \/ HasTemplate
  \/ CreateInstance
  \/ ValidateCustomizations
  \/ GenerateScript
  \/ GetInstance
  \/ DeleteInstance
  \/ GetAvailableInstances
  \/ Return

Spec == Init /\ [][Next]_vars

\* ------------------------------------------------------------------------
\* The caller keeps the object createInstance returned: it is the stored
\* instance itself (instances.set(instanceId, instance); return instance),
\* and TemplateInstance.templateId is an assignable string field.  Assigning
\* another template id to it is the only way a stored instance can come to
\* reference a template that the registry does not hold.
\* ------------------------------------------------------------------------
RetargetIds == {Str("find-key-escape-room"), Str("non-existent")}

AssignInstanceTemplateId ==
  /\ Idle
  /\ \E id \in DOMAIN instances, templateId \in RetargetIds :
       /\ instances' = [instances EXCEPT ![id].templateId = templateId]
       /\ last' = Call("assignTemplateId", id, templateId, NoError, Undefined)
       /\ UNCHANGED <<templates, deleted>>

NextAliased ==
  \/ RegisterTemplate
  \/ CreateInstance
  \/ GenerateScript
  \/ AssignInstanceTemplateId
  \/ Return

SpecAliased == Init /\ [][NextAliased]_vars

\* ------------------------------------------------------------------------
\* The life of instance ids: create, look up, delete, with the history of
\* the deleted ids
\* ------------------------------------------------------------------------
\* deleteInstance(instanceId), and the history notes an id that was removed
DeleteInstanceNoted ==
  /\ Idle
  /\ \E id \in InstanceIdInputs :
       LET r == deleteInstanceResult(instances, id) IN
       /\ instances' = r.instances
       /\ last' = Call("deleteInstance", id, Undefined, r.err, r.ret)
       /\ deleted' = IF r.ret = Bool(TRUE) THEN deleted \cup {id} ELSE deleted
       /\ UNCHANGED templates

NextHistory ==
  \/ RegisterTemplate
  \/ CreateInstance
  \/ GetInstance
  \/ GenerateScript
  \/ DeleteInstanceNoted
  \/ Return

SpecHistory == Init /\ [][NextHistory]_vars

\* ------------------------------------------------------------------------
\* Claims
\* ------------------------------------------------------------------------
IsRecord(v) == v.t = "object"

\* the last call was op and it has returned or thrown
Called(op) == last.op = op

\* C1: registerTemplate with a record whose id is already registered fails
\* with DuplicateTemplateError whatever the payload, and getTemplate(id)
\* afterwards still returns the template registered first.
C1_DuplicateKeepsOriginal ==
  [][(/\ last'.op = "registerTemplate"
      /\ IsRecord(last'.a1)
      /\ hasKey(templates, Get(last'.a1, "id")))
     => (/\ last'.err = "DuplicateTemplateError"
         /\ getTemplateResult(templates', Get(last'.a1, "id"))
              = [err |-> NoError, ret |-> templates[Get(last'.a1, "id")]])]_vars

\* C2: registerTemplate(t) stores t or fails with one of
\* DuplicateTemplateError, TemplateValidationError, InvalidInputError, and a
\* record with an unregistered id that is not stored fails with
\* TemplateValidationError.
C2_RegisterErrorsAreDocumented ==
  Called("registerTemplate") =>
    /\ last.err \in {NoError, "DuplicateTemplateError", "TemplateValidationError",
                     "InvalidInputError"}
    /\ (IsRecord(last.a1) /\ ~hasKey(templates, Get(last.a1, "id")))
         => last.err = "TemplateValidationError"

\* C3: once a template is registered, every later state has
\* hasTemplate(id) true and getTemplate(id) returning that same template.
C3_RegistryAppendOnly ==
  [][\A id \in DOMAIN templates :
       /\ hasTemplateResult(templates', id) = [err |-> NoError, ret |-> Bool(TRUE)]
       /\ getTemplateResult(templates', id) = [err |-> NoError, ret |-> templates[id]]]_vars

\* C4: every stored instance references a template that is registered.
C4_ReferentialIntegrity ==
  \A id \in DOMAIN instances :
    /\ hasKey(templates, instances[id].templateId)
    /\ getTemplateResult(templates, instances[id].templateId).err = NoError

C4_Witness ==
  /\ Called("createInstance")
  /\ last.err = NoError
  /\ hasKey(instances, last.ret.instanceId)
  /\ Cardinality(DOMAIN instances) = 2

\* the stored instance id references a template the registry does not hold
Dangling(id) == hasKey(instances, id) /\ ~hasKey(templates, instances[id].templateId)

\* C5: generateScript of an instance whose template is not in the registry
\* fails with ScriptGenerationError saying the template no longer exists and
\* returns no script; a script is returned only for a template that is
\* registered at the time of the call.
C5_DanglingInstanceFailsExplicitly ==
  Called("generateScript") =>
    /\ Dangling(last.a1) =>
         /\ last.err = "ScriptGenerationError"
         /\ last.a2 = Str("TemplateNoLongerExists")
         /\ last.ret = Undefined
    /\ (last.err = NoError /\ hasKey(instances, last.a1)) =>
         hasKey(templates, instances[last.a1].templateId)

C5_Witness ==
  /\ Called("generateScript")
  /\ Dangling(last.a1)
  /\ last.err = "ScriptGenerationError"

\* C6: createInstance succeeds or fails with one of InvalidInputError,
\* TemplateNotFoundError, CustomizationValidationError.
C6_CreateErrorsAreDocumented ==
  Called("createInstance") =>
    last.err \in {NoError, "InvalidInputError", "TemplateNotFoundError",
                  "CustomizationValidationError"}

\* the last call was createInstance for a registered template with a
\* participant override list
CreatedWithList ==
  /\ Called("createInstance")
  /\ validateInput(last.a1, "string") = NoError
  /\ hasKey(templates, last.a1)
  /\ IsRecord(last.a2)
  /\ IsArray(Get(last.a2, "participants"))

OverrideList == Get(last.a2, "participants").a
MinParticipants == Get(Get(templates[last.a1], "metadata"), "minParticipants").n
MaxParticipants == Get(Get(templates[last.a1], "metadata"), "maxParticipants").n

\* the elements with role 'gamemaster' (an element that is no record has none)
Gamemasters(list) ==
  {i \in 1..Len(list) : GetOpt(list[i], "role") = Str("gamemaster")}

\* every element is a participant record that validateParticipant accepts
AllValidParticipants(list) ==
  \A i \in 1..Len(list) :
    /\ ~Nullish(list[i])
    /\ validateParticipant(list[i], i) = <<>>

\* C7: a participant override list shorter than minParticipants or longer
\* than maxParticipants fails with CustomizationValidationError, and a valid
\* list whose length equals either bound is accepted.
C7_ParticipantBounds ==
  CreatedWithList =>
    /\ (Len(OverrideList) < MinParticipants \/ Len(OverrideList) > MaxParticipants)
         => last.err = "CustomizationValidationError"
    /\ (/\ Len(OverrideList) \in {MinParticipants, MaxParticipants}
        /\ AllValidParticipants(OverrideList)
        /\ Cardinality(Gamemasters(OverrideList)) = 1)
         => last.err = NoError

\* C8: createInstance with a participant override list succeeds only with
\* exactly one gamemaster; zero or several gamemasters fail with
\* CustomizationValidationError, and a valid list with one gamemaster and a
\* length within bounds succeeds.
C8_ExactlyOneGamemaster ==
  CreatedWithList =>
    /\ last.err = NoError => Cardinality(Gamemasters(OverrideList)) = 1
    /\ Cardinality(Gamemasters(OverrideList)) # 1
         => last.err = "CustomizationValidationError"
    /\ (/\ Cardinality(Gamemasters(OverrideList)) = 1
        /\ AllValidParticipants(OverrideList)
        /\ Len(OverrideList) >= MinParticipants
        /\ Len(OverrideList) <= MaxParticipants)
         => last.err = NoError

\* C9: a successful createInstance returns an id that was not in the store,
\* so it replaces no instance and the number of stored ids grows by one.
C9_InstanceIdsAreFresh ==
  [][(last'.op = "createInstance" /\ last'.err = NoError)
     => (/\ ~hasKey(instances, last'.ret.instanceId)
         /\ \A id \in DOMAIN instances : instances'[id] = instances[id]
         /\ Cardinality(DOMAIN instances') = Cardinality(DOMAIN instances) + 1)]_vars

\* the last call was getInstance or generateScript
LookedUpInstance == Called("getInstance") \/ Called("generateScript")

\* C10 as stated: getInstance(id) and generateScript(id) with a non-empty
\* string id that is not in the instance store fail with
\* InstanceNotFoundError.
C10_NonEmptyUnknownIdNotFound ==
  (/\ LookedUpInstance
   /\ TypeOf(last.a1) = "string"
   /\ last.a1.s # ""
   /\ ~hasKey(instances, last.a1))
  => last.err = "InstanceNotFoundError"

\* C10 amended: getInstance(id) and generateScript(id) with a string id that
\* is not empty after trimming and is not in the instance store fail with
\* InstanceNotFoundError.
C10_UnknownIdNotFound ==
  (/\ LookedUpInstance
   /\ TypeOf(last.a1) = "string"
   /\ Trim(last.a1.s) # ""
   /\ ~hasKey(instances, last.a1))
  => last.err = "InstanceNotFoundError"

C10_Witness ==
  /\ Called("generateScript")
  /\ last.a1 = Str("does-not-exist")
  /\ ~hasKey(instances, last.a1)
  /\ DOMAIN instances # {}
  /\ last.err = "InstanceNotFoundError"
\* C11: generateScript(id) returns a script or fails with InvalidInputError
\* (exactly when id is null, no string or blank), InstanceNotFoundError
\* (exactly when a usable id is not stored) or ScriptGenerationError (a
\* failure of the template lookup, the merge or the render); no other error
\* escapes.
C11_GenerateErrorsAreDocumented ==
  Called("generateScript") =>
    /\ last.err \in {NoError, "InvalidInputError", "InstanceNotFoundError",
                     "ScriptGenerationError"}
    /\ last.err = NoError <=> last.ret.t = "script"
    /\ last.err = "InvalidInputError"
         <=> (TypeOf(last.a1) # "string" \/ Trim(last.a1.s) = "")
    /\ last.err = "InstanceNotFoundError"
         <=> (/\ TypeOf(last.a1) = "string"
              /\ Trim(last.a1.s) # ""
              /\ ~hasKey(instances, last.a1))
    /\ last.err = "ScriptGenerationError"
         => last.a2 \in {Str("TemplateNoLongerExists"), Str("MergeFailed"),
                         Str("RenderFailed")}

C11_Witness ==
  /\ Called("generateScript")
  /\ hasKey(instances, last.a1)
  /\ hasKey(templates, instances[last.a1].templateId)
  /\ last.err = "ScriptGenerationError"
  /\ last.a2 = Str("RenderFailed")

\* C12: every stored instance of a registered template renders:
\* generateScript(instanceId) returns a script and does not fail with
\* ScriptGenerationError.
C12_AcceptedInstancesRender ==
  (/\ Called("generateScript")
   /\ hasKey(instances, last.a1)
   /\ hasKey(templates, instances[last.a1].templateId))
  => (last.err = NoError /\ last.ret.t = "script")

\* the operations that read the engine: they store, replace and delete nothing
ReadOps ==
  {"getTemplate", "getAvailableTemplates", "hasTemplate", "validateCustomizations",
   "generateScript", "getInstance", "getAvailableInstances"}

\* what generateScript(id) gives in the engine state (tmpls, insts)
ScriptOf(tmpls, insts, id) ==
  LET r == generateScriptResult(tmpls, insts, id) IN [err |-> r.err, ret |-> r.ret]

\* C13: a read operation, generateScript included, leaves the registry and
\* the instance store, and with them the script of every stored instance, as
\* they were, and the script generateScript returns is the one the next
\* generateScript of that instance returns: repeated calls on a stored
\* instance with reads in between give the identical script.
C13_IdempotentRead ==
  [][last'.op \in ReadOps =>
       /\ templates' = templates
       /\ instances' = instances
       /\ (last'.op = "generateScript" /\ hasKey(instances, last'.a1)) =>
            /\ [err |-> last'.err, ret |-> last'.ret]
                 = ScriptOf(templates, instances, last'.a1)
            /\ [err |-> last'.err, ret |-> last'.ret]
                 = ScriptOf(templates', instances', last'.a1)]_vars

C13_Witness ==
  /\ Called("generateScript")
  /\ last.err = NoError
  /\ Cardinality(DOMAIN instances) = 2
  /\ \E id \in DOMAIN instances :
       ScriptOf(templates, instances, id).ret # last.ret

\* the objective the script of a stored instance is to show: the one of its
\* own challenge override, or else the one of its template
OwnObjective(tmpls, insts, id) ==
  LET own == insts[id].customizedChallenge IN
  IF IsRecord(own) /\ "objective" \in DOMAIN own.o
    THEN own.o.objective
    ELSE Get(Get(tmpls[insts[id].templateId], "challenge"), "objective")

\* C14: creating, rendering or deleting another instance leaves the script
\* of every stored instance as it was, and the objective in a script is the
\* one of the instance's own override or of its template, never the one of
\* another instance.
C14_OverrideIsolation ==
  [][/\ last'.op \in {"createInstance", "generateScript"} =>
         \A id \in DOMAIN instances :
           ScriptOf(templates', instances', id) = ScriptOf(templates, instances, id)
     /\ last'.op = "deleteInstance" =>
         \A id \in (DOMAIN instances) \ {last'.a1} :
           ScriptOf(templates', instances', id) = ScriptOf(templates, instances, id)
     /\ (last'.op = "generateScript" /\ last'.err = NoError) =>
         last'.ret.objective = OwnObjective(templates, instances, last'.a1)]_vars

\* the last call was a generateScript that returned a script
Rendered == Called("generateScript") /\ last.err = NoError
RenderedInstance == instances[last.a1]
BaseTemplate == templates[RenderedInstance.templateId]
\* the resolved view generateScript rendered
ResolvedView == mergeTemplateWithCustomizations(BaseTemplate, RenderedInstance).ret

\* every field of the override has the override's value in the resolved
\* record, every other field the base value
OverridePrecedence(resolved, base, override) ==
  \A f \in (DOMAIN resolved.o) \cup (DOMAIN base.o)
           \cup (IF IsRecord(override) THEN DOMAIN override.o ELSE {}) :
    Get(resolved, f) = IF IsRecord(override) /\ f \in DOMAIN override.o
                         THEN override.o[f]
                         ELSE Get(base, f)

\* C15: in the resolved view generateScript renders, a challenge or
\* environment field of the override has the override's value and every
\* other field the base template's; a participant override replaces the
\* whole list and the rendered count is its length, and without one the
\* base list is kept.
C15_MergePrecedence ==
  Rendered =>
    /\ OverridePrecedence(Get(ResolvedView, "challenge"), Get(BaseTemplate, "challenge"),
                          RenderedInstance.customizedChallenge)
    /\ OverridePrecedence(Get(ResolvedView, "environment"),
                          Get(BaseTemplate, "environment"),
                          RenderedInstance.customizedEnvironment)
    /\ last.ret.objective = Get(Get(ResolvedView, "challenge"), "objective")
    /\ last.ret.location = Get(Get(ResolvedView, "environment"), "location")
    /\ LET list == IF IsArray(RenderedInstance.customizedParticipants)
                     THEN RenderedInstance.customizedParticipants
                     ELSE Get(BaseTemplate, "participants")
       IN  /\ Get(ResolvedView, "participants") = list
           /\ last.ret.participants = Num(Len(list.a))

C15_Witness ==
  /\ Rendered
  /\ IsRecord(RenderedInstance.customizedChallenge)
  /\ RenderedInstance.customizedEnvironment = Undefined
  /\ last.ret.objective = Str("Collect the flags")
  /\ last.ret.location = Str("enclosed room")

\* the speaker and text of every record of a dialogue list, in its order
LinesOf(d) ==
  IF IsArray(d)
    THEN [i \in 1..Len(d.a) |->
            [speaker |-> Get(d.a[i], "speaker"), text |-> Get(d.a[i], "text")]]
    ELSE <<>>

\* the rendered instance overrides the dialogue of segment seg
OverridesDialogue(seg) ==
  /\ IsRecord(RenderedInstance.customizedDialogue)
  /\ seg \in DOMAIN RenderedInstance.customizedDialogue.o

\* C16: the rendered section of a segment whose dialogue the instance
\* overrides holds exactly the override's lines in their order and none of
\* the template's; the section of any other segment holds the template's
\* lines unchanged.
C16_DialogueReplaced ==
  Rendered =>
    \A seg \in SegmentIds :
      last.ret[seg] =
        IF OverridesDialogue(seg)
          THEN LinesOf(RenderedInstance.customizedDialogue.o[seg])
          ELSE LinesOf(segmentDialogue(BaseTemplate, seg))

C16_Witness ==
  /\ Rendered
  /\ OverridesDialogue("intro")
  /\ ~OverridesDialogue("gameplay")
  /\ Len(last.ret.intro) = 2
  /\ last.ret.intro[1].text = Str("Run!")
  /\ last.ret.intro[2].text = Str("Go!")
  /\ Len(last.ret.gameplay) = 1

\* the duration of a segment of the registered template
BaseDuration(seg) == Get(Get(Get(BaseTemplate, "segments"), seg), "duration")

\* C17: whatever the instance customizes, the headings of its script are
\* Intro (0-a), Gameplay (a-(a+b)) and Conclusion ((a+b)-(a+b+c)) for the
\* durations a, b, c of the registered template's segments: 0-3, 3-30 and
\* 30-35 for 3/27/5.
C17_HeadingsFromBaseDurations ==
  Rendered =>
    LET a == BaseDuration("intro")
        b == BaseDuration("gameplay")
        c == BaseDuration("conclusion")
    IN  /\ last.ret.introHeading = <<Num(0), a>>
        /\ last.ret.gameplayHeading = <<a, JsAdd(a, b)>>
        /\ last.ret.conclusionHeading = <<JsAdd(a, b), JsAdd(JsAdd(a, b), c)>>
        /\ (a = Num(3) /\ b = Num(27) /\ c = Num(5)) =>
             /\ last.ret.introHeading = <<Num(0), Num(3)>>
             /\ last.ret.gameplayHeading = <<Num(3), Num(30)>>
             /\ last.ret.conclusionHeading = <<Num(30), Num(35)>>

C17_Witness ==
  /\ Rendered
  /\ OverridesDialogue("intro")
  /\ last.ret.introHeading = <<Num(0), Num(3)>>
  /\ last.ret.gameplayHeading = <<Num(3), Num(30)>>
  /\ last.ret.conclusionHeading = <<Num(30), Num(35)>>

\* C18: the boolean validateCustomizations throws for no arguments: it
\* returns true or false, and false for an id that is null, no string, blank
\* or not registered, for overrides that are null or no record, and for an
\* override payload the validation rejects.
C18_ValidateNeverThrows ==
  Called("validateCustomizations") =>
    /\ last.err = NoError
    /\ last.ret \in {Bool(TRUE), Bool(FALSE)}
    /\ (\/ TypeOf(last.a1) # "string"
        \/ Trim(last.a1.s) = ""
        \/ ~hasKey(templates, last.a1)
        \/ ~IsRecord(last.a2)
        \/ validateCustomizationsUtil(templates[last.a1], last.a2).err # NoError)
         => last.ret = Bool(FALSE)

C18_Witness ==
  /\ Called("validateCustomizations")
  /\ hasKey(templates, last.a1)
  /\ IsRecord(last.a2)
  /\ validateCustomizationsUtil(templates[last.a1], last.a2).err = "TypeError"
  /\ last.ret = Bool(FALSE)

\* C19: in every engine state and for every pair of arguments the boolean
\* validateCustomizations returns true exactly when createInstance with the
\* same arguments in that state succeeds.
C19_ValidateAgreesWithCreate ==
  Called("validateCustomizations") =>
    (last.ret = Bool(TRUE) <=> createInstanceError(templates, last.a1, last.a2) = NoError)

\* C20: deleteInstance(id) of a stored instance returns true and removes
\* that instance and no other, the others staying as they were; every
\* getInstance(id) and generateScript(id) after it, for an id that was
\* deleted, fails with InstanceNotFoundError.
C20_DeletedStaysDeleted ==
  [][/\ (last'.op = "deleteInstance" /\ hasKey(instances, last'.a1)) =>
         /\ last'.err = NoError
         /\ last'.ret = Bool(TRUE)
         /\ DOMAIN instances' = (DOMAIN instances) \ {last'.a1}
         /\ \A other \in DOMAIN instances' : instances'[other] = instances[other]
     /\ (last'.op \in {"getInstance", "generateScript"} /\ last'.a1 \in deleted) =>
         last'.err = "InstanceNotFoundError"]_vars

\* the call made in this step is deleteInstance with a usable id that is
\* not in the store
DeletesUnknownId ==
  /\ last'.op = "deleteInstance"
  /\ TypeOf(last'.a1) = "string"
  /\ Trim(last'.a1.s) # ""
  /\ ~hasKey(instances, last'.a1)

\* C21 as stated: deleteInstance of an id that is not in the store fails
\* with InstanceNotFoundError, as getInstance and generateScript do.
C21_DeleteUnknownNotFound ==
  [][DeletesUnknownId => last'.err = "InstanceNotFoundError"]_vars

\* C21 amended: deleteInstance of an id that is not in the store throws
\* nothing, returns false and leaves the store as it was.
C21_DeleteUnknownReturnsFalse ==
  [][DeletesUnknownId =>
       /\ last'.err = NoError
       /\ last'.ret = Bool(FALSE)
       /\ instances' = instances]_vars

C21_Witness ==
  /\ Called("deleteInstance")
  /\ last.a1 = Str("does-not-exist")
  /\ last.ret = Bool(FALSE)
  /\ Cardinality(DOMAIN instances) = 2

\* the last call was createInstance for a registered template with a
\* dialogue override that is a map
CreatedWithDialogueMap ==
  /\ Called("createInstance")
  /\ validateInput(last.a1, "string") = NoError
  /\ hasKey(templates, last.a1)
  /\ IsRecord(last.a2)
  /\ IsRecord(Get(last.a2, "dialogue"))

\* C22: createInstance with a dialogue override map that has a key other
\* than intro, gameplay and conclusion fails with
\* CustomizationValidationError; a map with keys among these three is
\* accepted whatever its values are.
C22_DialogueKeysValidated ==
  CreatedWithDialogueMap =>
    LET keys == DOMAIN Get(last.a2, "dialogue").o IN
    /\ ~(keys \subseteq SegmentIds) => last.err = "CustomizationValidationError"
    /\ (keys \subseteq SegmentIds /\ DOMAIN last.a2.o = {"dialogue"})
         => last.err = NoError

\* the last call was createInstance for a registered template with
\* challenge and environment overrides only, each a record
CreatedWithChallengeOrEnvironment ==
  /\ Called("createInstance")
  /\ validateInput(last.a1, "string") = NoError
  /\ hasKey(templates, last.a1)
  /\ IsRecord(last.a2)
  /\ DOMAIN last.a2.o # {}
  /\ DOMAIN last.a2.o \subseteq {"challenge", "environment"}
  /\ \A part \in DOMAIN last.a2.o : IsRecord(last.a2.o[part])

\* the field f is present in the record o and is no non-blank string
WrongStringField(o, f) ==
  /\ f \in DOMAIN o.o
  /\ o.o[f] # Undefined
  /\ (TypeOf(o.o[f]) # "string" \/ Trim(o.o[f].s) = "")

\* the field f is present in the record o and is no list
WrongListField(o, f) ==
  /\ f \in DOMAIN o.o
  /\ o.o[f] # Undefined
  /\ ~IsArray(o.o[f])

\* some present field of the challenge or environment override of the last
\* call has the wrong type
SomeOverrideFieldWrong ==
  \/ /\ "challenge" \in DOMAIN last.a2.o
     /\ \/ \E f \in {"objective", "successCondition", "failureConsequence"} :
             WrongStringField(last.a2.o.challenge, f)
        \/ \E f \in {"targetObjects", "rules"} : WrongListField(last.a2.o.challenge, f)
  \/ /\ "environment" \in DOMAIN last.a2.o
     /\ \/ WrongStringField(last.a2.o.environment, "location")
        \/ \E f \in {"props", "constraints"} : WrongListField(last.a2.o.environment, f)

ViolatedTemplateRules(template) ==
  {r \in {"TemplateId", "TemplateName", "TemplateDescription"} :
     LET v == Get(template, CASE r = "TemplateId" -> "id"
                              [] r = "TemplateName" -> "name"
                              [] OTHER -> "description")
     IN  TypeOf(v) # "string" \/ v.s = ""}
  \cup (IF ~Truthy(Get(template, "metadata")) THEN {"MetadataRequired"} ELSE {})
  \cup (IF ~IsArray(Get(template, "participants")) \/ Len(Get(template, "participants").a) = 0
         THEN {"NoParticipants"}
         ELSE (IF Gamemasters(Get(template, "participants").a) = {}
                 THEN {"NoGamemaster"} ELSE {})
              \cup (IF Cardinality(Gamemasters(Get(template, "participants").a)) > 1
                      THEN {"ManyGamemasters"} ELSE {}))
  \cup (IF ~Truthy(Get(template, "segments")) THEN {"SegmentsRequired"} ELSE {})

\* the rules of the override contract that a payload violates for a template
ViolatedOverrideRules(template, customizations) ==
  LET ps == Get(customizations, "participants")
      md == Get(template, "metadata")
      d == Get(customizations, "dialogue")
      c == Get(customizations, "challenge")
  IN
  (IF Truthy(ps) /\ ~IsArray(ps) THEN {"ParticipantsNotArray"} ELSE {})
  \cup (IF IsArray(ps)
         THEN (IF Len(ps.a) < Get(md, "minParticipants").n
                 THEN {"TooFewParticipants"} ELSE {})
              \cup (IF Len(ps.a) > Get(md, "maxParticipants").n
                      THEN {"TooManyParticipants"} ELSE {})
              \cup (IF Gamemasters(ps.a) = {} THEN {"NoGamemaster"} ELSE {})
              \cup (IF Cardinality(Gamemasters(ps.a)) > 1 THEN {"ManyGamemasters"} ELSE {})
         ELSE {})
  \cup (IF IsRecord(c) /\ WrongStringField(c, "objective")
         THEN {"ChallengeObjective"} ELSE {})
  \cup (IF Truthy(d) /\ TypeOf(d) # "object" THEN {"DialogueNotObject"} ELSE {})
  \cup (IF IsRecord(d) /\ ~(DOMAIN d.o \subseteq SegmentIds)
         THEN {"InvalidDialogueSegment"} ELSE {})

\* the rules a list of issues names
IssueNames(issues) == {issues[i].issue : i \in 1..Len(issues)}

\* C24: a template or an override payload that violates several rules
\* fails with the validation error of its kind, and that one error lists an
\* issue for every rule violated: the validation does not stop at the first.
C24_ValidationAccumulates ==
  /\ (/\ Called("registerTemplate")
      /\ IsRecord(last.a1)
      /\ last.err # "DuplicateTemplateError"
      /\ Cardinality(ViolatedTemplateRules(last.a1)) >= 2)
     => /\ last.err = "TemplateValidationError"
        /\ ViolatedTemplateRules(last.a1) \subseteq IssueNames(validateTemplate(last.a1).issues)
  /\ (/\ Called("createInstance")
      /\ validateInput(last.a1, "string") = NoError
      /\ hasKey(templates, last.a1)
      /\ IsRecord(last.a2)
      /\ Cardinality(ViolatedOverrideRules(templates[last.a1], last.a2)) >= 2)
     => /\ last.err = "CustomizationValidationError"
        /\ ViolatedOverrideRules(templates[last.a1], last.a2)
             \subseteq IssueNames(validateCustomizationsUtil(templates[last.a1], last.a2).issues)

\* C25: a public operation that fails, with whatever error, leaves the
\* registry and the instance store exactly as they were: a template that
\* fails validation is not stored and a rejected createInstance stores no
\* instance.
C25_FailureChangesNothing ==
  [][(last'.op \in {"registerTemplate", "getTemplate", "hasTemplate", "createInstance",
                    "generateScript", "getInstance", "deleteInstance"}
      /\ last'.err # NoError)
     => (templates' = templates /\ instances' = instances)]_vars

C25_Witness ==
  /\ Called("registerTemplate")
  /\ last.err = "TemplateValidationError"
  /\ ~hasKey(templates, Get(last.a1, "id"))
  /\ DOMAIN templates # {}
  /\ DOMAIN instances # {}

\* C26: generateScript, the boolean validateCustomizations, getTemplate,
\* hasTemplate, getInstance and the two list operations change neither the
\* registry nor the instance store; after generateScript the registered
\* template and the overrides of every stored instance are what they were.
C26_ReadsArePure ==
  [][/\ last'.op \in {"generateScript", "validateCustomizations", "getTemplate",
                       "hasTemplate", "getInstance", "getAvailableTemplates",
                       "getAvailableInstances"}
        => (/\ DOMAIN templates' = DOMAIN templates
            /\ DOMAIN instances' = DOMAIN instances)
     /\ last'.op = "generateScript"
        => (/\ \A tid \in DOMAIN templates : templates'[tid] = templates[tid]
            /\ \A id \in DOMAIN instances : instances'[id] = instances[id])
     /\ last'.op \in {"validateCustomizations", "getTemplate", "hasTemplate",
                       "getInstance", "getAvailableTemplates", "getAvailableInstances"}
        => UNCHANGED <<templates, instances>>]_vars

C26_Witness ==
  /\ Rendered
  /\ IsRecord(RenderedInstance.customizedChallenge)
  /\ last.ret.objective = Get(RenderedInstance.customizedChallenge, "objective")
  /\ Get(Get(BaseTemplate, "challenge"), "objective") = Str("Find the key")
  /\ last.ret.objective # Str("Find the key")

\* every registered template meets the template contract
RegisteredTemplatesValid ==
  \A id \in DOMAIN templates :
    LET t == templates[id]
        md == Get(t, "metadata")
        sum == totalDuration(Get(t, "segments"))
    IN  /\ \A f \in {"id", "name", "description"} :
             TypeOf(Get(t, f)) = "string" /\ Get(t, f).s # ""
        /\ Get(md, "duration").t = "number" /\ Get(md, "duration").n > 0
        /\ Get(md, "minParticipants").t = "number" /\ Get(md, "minParticipants").n >= 1
        /\ Get(md, "maxParticipants").t = "number"
        /\ Get(md, "maxParticipants").n >= Get(md, "minParticipants").n
        /\ IsArray(Get(t, "participants"))
        /\ Cardinality(Gamemasters(Get(t, "participants").a)) = 1
        /\ \A seg \in SegmentIds : Truthy(Get(Get(t, "segments"), seg))
        /\ sum.t = "number"
        /\ sum.n - Get(md, "duration").n <= 2
        /\ Get(md, "duration").n - sum.n <= 2

\* the last call registered a record whose numeric segment durations differ
\* from metadata.duration by k
RegisteredWithDifference(k) ==
  /\ Called("registerTemplate")
  /\ IsRecord(last.a1)
  /\ last.err # "DuplicateTemplateError"
  /\ LET sum == totalDuration(Get(last.a1, "segments"))
         duration == Get(Get(last.a1, "metadata"), "duration")
     IN  /\ sum.t = "number"
         /\ duration.t = "number"
         /\ (sum.n - duration.n = k \/ duration.n - sum.n = k)

\* C27: every template in the registry has a non-empty id, name and
\* description, metadata.duration > 0, minParticipants >= 1, maxParticipants
\* >= minParticipants, exactly one gamemaster, the three segments, and
\* segment durations that sum to within 2 of metadata.duration; a
\* difference of 3 is rejected.
C27_RegisteredTemplateInvariant ==
  /\ RegisteredTemplatesValid
  /\ RegisteredWithDifference(3) => last.err = "TemplateValidationError"

\* the ids of the participants of a list are pairwise distinct
DistinctParticipantIds(list) ==
  \A i, j \in 1..Len(list) :
    i # j => GetOpt(list[i], "id") # GetOpt(list[j], "id")

\* C28: the participant list of every registered template and the
\* participant override list of every stored instance hold pairwise
\* distinct participant ids.
C28_ParticipantIdsUnique ==
  /\ \A tid \in DOMAIN templates :
       IsArray(Get(templates[tid], "participants"))
         => DistinctParticipantIds(Get(templates[tid], "participants").a)
  /\ \A id \in DOMAIN instances :
       IsArray(instances[id].customizedParticipants)
         => DistinctParticipantIds(instances[id].customizedParticipants.a)

\* C29: for every script generateScript returns, the resolved participant
\* list, which is the instance's override list or else the template's own,
\* and with it the rendered count, has a length within minParticipants and
\* maxParticipants of the template.
C29_RenderedCountWithinBounds ==
  Rendered =>
    LET list == Get(ResolvedView, "participants")
        md == Get(BaseTemplate, "metadata")
    IN  /\ IsArray(list)
        /\ last.ret.participants = Num(Len(list.a))
        /\ Len(list.a) >= Get(md, "minParticipants").n
        /\ Len(list.a) <= Get(md, "maxParticipants").n

\* the permission flags of customizationOptions
PermissionFlags ==
  {"allowParticipantChange", "allowChallengeChange", "allowEnvironmentChange",
   "allowDialogueChange"}

\* the value v with every permission flag and every isCustomizable flag in it,
\* at any depth, set to b
RECURSIVE WithFlags(_, _)
WithFlags(v, b) ==
  IF v.t = "object"
    THEN Obj([f \in DOMAIN v.o |->
                IF f \in PermissionFlags \cup {"isCustomizable"} THEN Bool(b)
                ELSE WithFlags(v.o[f], b)])
  ELSE IF v.t = "array" THEN Arr([i \in 1..Len(v.a) |-> WithFlags(v.a[i], b)])
  ELSE v

\* the registry with the flags of every template set to b
RegistryWithFlags(tmpls, b) == [k \in DOMAIN tmpls |-> WithFlags(tmpls[k], b)]

\* C30: the permission and isCustomizable flags are not enforced: the
\* outcome of createInstance, and the outcome and the script of
\* generateScript, are what they would be with every flag of every registered
\* template and of the overrides switched on, and what they would be with
\* every flag switched off.
C30_FlagsNotEnforced ==
  \A b \in BOOLEAN :
    /\ Called("createInstance") =>
         last.err = createInstanceError(RegistryWithFlags(templates, b), last.a1,
                                        WithFlags(last.a2, b))
    /\ Called("generateScript") =>
         [err |-> last.err, ret |-> last.ret]
           = ScriptOf(RegistryWithFlags(templates, b), instances, last.a1)

\* generateScript has rendered an instance that overrides the participants
\* of a template whose permission flags are all off
C30_Witness ==
  /\ Rendered
  /\ Get(BaseTemplate, "customizationOptions")
       = Obj([f \in PermissionFlags |-> Bool(FALSE)])
  /\ IsArray(RenderedInstance.customizedParticipants)

====
